---- MODULE Spec2Model ----
(***************************************************************************)
(* Multi-signature wallet (Anchor program `multisig`).                     *)
(*                                                                         *)
(* State: the singleton wallet account, the proposal accounts by address,  *)
(* the outcome of the last processed transaction, and the transactions    *)
(* clients have in flight.  One action per                                 *)
(* instruction; each action is the account validation of the instruction's *)
(* Accounts struct followed by the handler, committed only when both       *)
(* succeed (a failed transaction leaves every account as it was).          *)
(***************************************************************************)
EXTENDS Integers, Sequences, FiniteSets, TLC

\* ---------------------------------------------------------------- bounds
MaxSigners == 2
MaxThreshold == 3
MaxProposals == 2

\* identity keys (Pubkey) of the callers, and the proposed instruction (the
\* program never inspects it: it is stored and handed to invoke_signed)
Keys == {"A", "B", "C"}
Instructions == {"ix"}
NoCaller == "none"
NoInstruction == "none"

\* ------------------------------------------------------------ addressing
CanonicalBump == 255

\* u64::to_le_bytes: the eight bytes of n, least significant first
to_le_bytes(n) ==
    LET hi == n \div 16777216
    IN  <<n % 256, (n \div 256) % 256, (n \div 65536) % 256, hi % 256,
          (hi \div 256) % 256, (hi \div 65536) % 256, (hi \div 16777216) % 256,
          ((hi \div 16777216) \div 256) % 256>>

\* Pubkey::create_program_address: a collision-free function of the seeds
\* and the bump
create_program_address(seeds, bump) == <<seeds, bump>>

\* Pubkey::find_program_address: the address of the seeds under their
\* canonical bump, and that bump
find_program_address(seeds) ==
    [key |-> create_program_address(seeds, CanonicalBump), bump |-> CanonicalBump]

WalletSeeds == <<"multisig">>

ProposalSeeds(wallet_key, n) == <<"proposal", wallet_key, to_le_bytes(n)>>

WalletKey == find_program_address(WalletSeeds).key

\* the proposal addresses a caller may present
ProposalKeys ==
    {find_program_address(ProposalSeeds(WalletKey, n)).key : n \in 0..MaxProposals}

NoKey == <<>>

\* ------------------------------------------------------------- accounts
\* an account that was never initialised: zeroed data, no discriminator
EmptyWallet ==
    [discriminator |-> FALSE, signers |-> <<>>, threshold |-> 0,
     proposal_count |-> 0, bump |-> 0]

EmptyProposal ==
    [discriminator |-> FALSE, multi_sig |-> NoKey, proposer |-> NoCaller, index |-> 0,
     instruction |-> NoInstruction, approvals |-> <<>>, executed |-> FALSE, bump |-> 0]

Range(s) == {s[i] : i \in 1..Len(s)}

\* Vec::contains
contains(s, k) == k \in Range(s)

\* bounded sequences over S
SeqUpTo(S, n) == UNION {[1..m -> S] : m \in 0..n}

\* the clients that submit transactions concurrently, and the keys each
\* can sign with (one key is held by both)
Clients == {"c1", "c2"}
ClientKeys == [c \in Clients |-> IF c = "c1" THEN {"A", "B"} ELSE {"A"}]

\* the transaction a client has in flight: the instruction, the proposal
\* address it presents and the key it signs with
NoTx ==
    [op |-> "none", key |-> NoKey, caller |-> NoCaller,
     instruction |-> NoInstruction]

VARIABLES wallet, proposals, result, pending

vars == <<wallet, proposals, result, pending>>

\* the outcome of a transaction: the instruction, the error (or "Ok"), the
\* event emitted, and the arguments the handler was invoked with (left
\* empty when the accounts were rejected before the handler ran)
Outcome(op, err, event, args) ==
    [op |-> op, err |-> err, event |-> event, caller |-> args.caller,
     signers |-> args.signers, threshold |-> args.threshold,
     instruction |-> args.instruction]

NoArgs ==
    [caller |-> NoCaller, signers |-> <<>>, threshold |-> 0,
     instruction |-> NoInstruction]

Init ==
    /\ wallet = EmptyWallet
    /\ proposals = [a \in ProposalKeys |-> EmptyProposal]
    /\ result = Outcome("none", "Ok", "none", NoArgs)
    /\ pending = [c \in Clients |-> NoTx]

\* ------------------------------------------------------------- handlers
Fail(err, w, p) == [err |-> err, wallet |-> w, proposal |-> p, event |-> "none"]

\* initialize_wallet with its two checks in the other order
initialize_wallet_duplicates_first(w, signers, threshold, bump) ==
    IF Cardinality(Range(signers)) # Len(signers)
    THEN Fail("DuplicateSigner", w, EmptyProposal)
    ELSE IF ~(Len(signers) >= threshold)
    THEN Fail("ThresholdTooHigh", w, EmptyProposal)
    ELSE [err |-> "Ok",
          wallet |-> [w EXCEPT !.signers = signers, !.threshold = threshold,
                               !.proposal_count = 0, !.bump = bump],
          proposal |-> EmptyProposal,
          event |-> "WalletInitialized"]

\* multisig::initialize_wallet on the freshly created wallet account w
initialize_wallet(w, signers, threshold, bump) ==
    IF ~(Len(signers) >= threshold)
    THEN Fail("ThresholdTooHigh", w, EmptyProposal)
    ELSE IF Cardinality(Range(signers)) # Len(signers)
    THEN Fail("DuplicateSigner", w, EmptyProposal)
    ELSE [err |-> "Ok",
          wallet |-> [w EXCEPT !.signers = signers, !.threshold = threshold,
                               !.proposal_count = 0, !.bump = bump],
          proposal |-> EmptyProposal,
          event |-> "WalletInitialized"]

\* create_proposal that forgets to advance the wallet's counter
create_proposal_no_increment(w, p, proposer, ix, bump) ==
    IF ~contains(w.signers, proposer)
    THEN Fail("InvalidSigner", w, p)
    ELSE [err |-> "Ok",
          wallet |-> w,
          proposal |-> [p EXCEPT !.multi_sig = WalletKey,
                                 !.proposer = proposer,
                                 !.instruction = ix,
                                 !.approvals = Append(p.approvals, proposer),
                                 !.executed = FALSE,
                                 !.bump = bump,
                                 !.index = w.proposal_count + 1],
          event |-> "ProposalCreated"]

\* create_proposal without the signer check
create_proposal_unchecked(w, p, proposer, ix, bump) ==
    [err |-> "Ok",
     wallet |-> [w EXCEPT !.proposal_count = w.proposal_count + 1],
     proposal |-> [p EXCEPT !.multi_sig = WalletKey,
                            !.proposer = proposer,
                            !.instruction = ix,
                            !.approvals = Append(p.approvals, proposer),
                            !.executed = FALSE,
                            !.bump = bump,
                            !.index = w.proposal_count + 1],
     event |-> "ProposalCreated"]

\* create_proposal taking the index from the counter before incrementing it
create_proposal_stale_index(w, p, proposer, ix, bump) ==
    IF ~contains(w.signers, proposer)
    THEN Fail("InvalidSigner", w, p)
    ELSE [err |-> "Ok",
          wallet |-> [w EXCEPT !.proposal_count = w.proposal_count + 1],
          proposal |-> [p EXCEPT !.multi_sig = WalletKey,
                                 !.proposer = proposer,
                                 !.instruction = ix,
                                 !.approvals = Append(p.approvals, proposer),
                                 !.executed = FALSE,
                                 !.bump = bump,
                                 !.index = w.proposal_count],
          event |-> "ProposalCreated"]

\* multisig::create_proposal on the wallet w and the freshly created
\* proposal account p
create_proposal(w, p, proposer, ix, bump) ==
    IF ~contains(w.signers, proposer)
    THEN Fail("InvalidSigner", w, p)
    ELSE LET count == w.proposal_count + 1
         IN  [err |-> "Ok",
              wallet |-> [w EXCEPT !.proposal_count = count],
              proposal |-> [p EXCEPT !.multi_sig = WalletKey,
                                     !.proposer = proposer,
                                     !.instruction = ix,
                                     !.approvals = Append(p.approvals, proposer),
                                     !.executed = FALSE,
                                     !.bump = bump,
                                     !.index = count],
              event |-> "ProposalCreated"]

\* multisig::approve_proposal
approve_proposal(w, p, approver) ==
    IF ~contains(w.signers, approver)
    THEN Fail("InvalidSigner", w, p)
    ELSE IF p.executed
    THEN Fail("AlreadyExecuted", w, p)
    ELSE IF contains(p.approvals, approver)
    THEN Fail("AlreadyApproved", w, p)
    ELSE [err |-> "Ok", wallet |-> w,
          proposal |-> [p EXCEPT !.approvals = Append(p.approvals, approver)],
          event |-> "ProposalApproved"]

\* multisig::execute_proposal; cpi_ok is the outcome of invoke_signed
execute_proposal(w, p, cpi_ok) ==
    IF p.executed
    THEN Fail("AlreadyExecuted", w, p)
    ELSE IF ~(Len(p.approvals) >= w.threshold)
    THEN Fail("NotEnoughApprovals", w, p)
    ELSE LET flipped == [p EXCEPT !.executed = TRUE]
         IN  IF ~cpi_ok
             THEN Fail("ProgramFailedToComplete", w, flipped)
             ELSE [err |-> "Ok", wallet |-> w, proposal |-> flipped,
                   event |-> "ProposalExecuted"]

\* --------------------------------------------------- account validation
\* InitializeWallet with `init_if_needed` in place of `init`
InitializeWalletAccounts_if_needed(w) == "Ok"

\* #[derive(Accounts)] InitializeWallet: `init` of the wallet at its seeds
InitializeWalletAccounts(w) ==
    IF w.discriminator THEN "AccountAlreadyInUse" ELSE "Ok"

\* the wallet constraint shared by the other three instructions:
\* an initialised wallet at seeds [b"multisig"] with bump = wallet.bump
WalletConstraint(w) ==
    IF ~w.discriminator THEN "AccountNotInitialized"
    ELSE IF create_program_address(WalletSeeds, w.bump) # WalletKey
    THEN "ConstraintSeeds"
    ELSE "Ok"

\* CreateProposal with `init_if_needed` and no seeds on the proposal
CreateProposalAccounts_any_address(w, ps, key) == WalletConstraint(w)

\* #[derive(Accounts)] CreateProposal: `init` of the proposal at the seeds
\* (wallet key, wallet.proposal_count)
CreateProposalAccounts(w, ps, key) ==
    IF WalletConstraint(w) # "Ok" THEN WalletConstraint(w)
    ELSE IF key # find_program_address(ProposalSeeds(WalletKey, w.proposal_count)).key
    THEN "ConstraintSeeds"
    ELSE IF ps[key].discriminator THEN "AccountAlreadyInUse"
    ELSE "Ok"

\* the proposal constraint of ApproveProposal and ExecuteProposal:
\* an initialised proposal at the seeds (wallet key, proposal.index) with
\* bump = proposal.bump, belonging to the wallet
ProposalConstraint(w, ps, key) ==
    IF WalletConstraint(w) # "Ok" THEN WalletConstraint(w)
    ELSE IF ~ps[key].discriminator THEN "AccountNotInitialized"
    ELSE IF key # create_program_address(ProposalSeeds(WalletKey, ps[key].index),
                                         ps[key].bump)
    THEN "ConstraintSeeds"
    ELSE IF ps[key].multi_sig # WalletKey THEN "ConstraintHasOne"
    ELSE "Ok"

\* #[derive(Accounts)] ApproveProposal
ApproveProposalAccounts(w, ps, key) == ProposalConstraint(w, ps, key)

\* #[derive(Accounts)] ExecuteProposal
ExecuteProposalAccounts(w, ps, key) == ProposalConstraint(w, ps, key)

\* ------------------------------------------------------------- actions
InitializeWallet(signers, threshold) ==
    LET v == InitializeWalletAccounts(wallet)
        fresh == [EmptyWallet EXCEPT !.discriminator = TRUE]
        r == initialize_wallet(fresh, signers, threshold,
                               find_program_address(WalletSeeds).bump)
        err == IF v # "Ok" THEN v ELSE r.err
    IN  /\ wallet' = IF err = "Ok" THEN r.wallet ELSE wallet
        /\ UNCHANGED proposals
        /\ result' = Outcome("initialize_wallet", err,
                             IF err = "Ok" THEN r.event ELSE "none",
                             IF v = "Ok"
                             THEN [NoArgs EXCEPT !.signers = signers,
                                                 !.threshold = threshold]
                             ELSE NoArgs)

CreateProposal(key, proposer, ix) ==
    /\ wallet.proposal_count < MaxProposals
    /\ LET v == CreateProposalAccounts(wallet, proposals, key)
           fresh == [EmptyProposal EXCEPT !.discriminator = TRUE]
           r == create_proposal(wallet, fresh, proposer, ix,
                    find_program_address(
                        ProposalSeeds(WalletKey, wallet.proposal_count)).bump)
           err == IF v # "Ok" THEN v ELSE r.err
       IN  /\ wallet' = IF err = "Ok" THEN r.wallet ELSE wallet
           /\ proposals' = IF err = "Ok"
                           THEN [proposals EXCEPT ![key] = r.proposal]
                           ELSE proposals
           /\ result' = Outcome("create_proposal", err,
                                IF err = "Ok" THEN r.event ELSE "none",
                                IF v = "Ok"
                                THEN [NoArgs EXCEPT !.caller = proposer,
                                                    !.instruction = ix]
                                ELSE NoArgs)

ApproveProposal(key, approver) ==
    LET v == ApproveProposalAccounts(wallet, proposals, key)
        r == approve_proposal(wallet, proposals[key], approver)
        err == IF v # "Ok" THEN v ELSE r.err
    IN  /\ UNCHANGED wallet
        /\ proposals' = IF err = "Ok"
                        THEN [proposals EXCEPT ![key] = r.proposal]
                        ELSE proposals
        /\ result' = Outcome("approve_proposal", err,
                             IF err = "Ok" THEN r.event ELSE "none",
                             IF v = "Ok"
                             THEN [NoArgs EXCEPT !.caller = approver]
                             ELSE NoArgs)

ExecuteProposal(key, executor, cpi_ok) ==
    LET v == ExecuteProposalAccounts(wallet, proposals, key)
        r == execute_proposal(wallet, proposals[key], cpi_ok)
        err == IF v # "Ok" THEN v ELSE r.err
    IN  /\ UNCHANGED wallet
        /\ proposals' = IF err = "Ok"
                        THEN [proposals EXCEPT ![key] = r.proposal]
                        ELSE proposals
        /\ result' = Outcome("execute_proposal", err,
                             IF err = "Ok" THEN r.event ELSE "none",
                             IF v = "Ok"
                             THEN [NoArgs EXCEPT !.caller = executor]
                             ELSE NoArgs)

\* the arguments of initialize_wallet worth submitting: once the wallet
\* exists the `init` constraint rejects the call before any argument is
\* read, so one representative argument list stands for all of them
InitializeWalletArgs ==
    IF wallet.discriminator
    THEN {<<>>} \X {0}
    ELSE SeqUpTo(Keys, MaxSigners) \X (0..MaxThreshold)

\* transactions processed as soon as they are submitted: nothing in flight
Next ==
    \/ \E a \in InitializeWalletArgs :
          InitializeWallet(a[1], a[2]) /\ UNCHANGED pending
    \/ \E key \in ProposalKeys, proposer \in Keys, ix \in Instructions :
          CreateProposal(key, proposer, ix) /\ UNCHANGED pending
    \/ \E key \in ProposalKeys, approver \in Keys :
          ApproveProposal(key, approver) /\ UNCHANGED pending
    \/ \E key \in ProposalKeys, executor \in Keys, cpi_ok \in BOOLEAN :
          ExecuteProposal(key, executor, cpi_ok) /\ UNCHANGED pending

Spec == Init /\ [][Next]_vars

\* ----------------------------------------------- concurrent submission
\* a client reads the wallet, derives the address CreateProposal will
\* accept for the proposal_count it read, and sends the transaction
SubmitCreate(c, proposer, ix) ==
    /\ pending[c] = NoTx
    /\ wallet.discriminator
    /\ wallet.proposal_count < MaxProposals
    /\ pending' = [pending EXCEPT ![c] =
           [op |-> "create_proposal",
            key |-> find_program_address(
                        ProposalSeeds(WalletKey, wallet.proposal_count)).key,
            caller |-> proposer, instruction |-> ix]]
    /\ UNCHANGED <<wallet, proposals, result>>

\* a client reads an existing proposal and sends its approval
SubmitApprove(c, key, approver) ==
    /\ pending[c] = NoTx
    /\ proposals[key].discriminator
    /\ pending' = [pending EXCEPT ![c] =
           [op |-> "approve_proposal", key |-> key, caller |-> approver,
            instruction |-> NoInstruction]]
    /\ UNCHANGED <<wallet, proposals, result>>

\* the runtime processes one transaction in flight, atomically, against the
\* accounts as they are now: it commits or is rejected
Process(c) ==
    /\ pending[c] # NoTx
    /\ IF pending[c].op = "create_proposal"
       THEN CreateProposal(pending[c].key, pending[c].caller, pending[c].instruction)
       ELSE ApproveProposal(pending[c].key, pending[c].caller)
    /\ pending' = [pending EXCEPT ![c] = NoTx]

NextConcurrent ==
    \/ \E a \in InitializeWalletArgs :
          InitializeWallet(a[1], a[2]) /\ UNCHANGED pending
    \/ \E c \in Clients, ix \in Instructions :
          \E proposer \in ClientKeys[c] : SubmitCreate(c, proposer, ix)
    \/ \E c \in Clients, key \in ProposalKeys :
          \E approver \in ClientKeys[c] : SubmitApprove(c, key, approver)
    \/ \E c \in Clients : Process(c)

SpecConcurrent == Init /\ [][NextConcurrent]_vars

\* ---------------------------------------------------------------- claims
Existing == {k \in ProposalKeys : proposals[k].discriminator}

HasDuplicates(s) == \E i, j \in 1..Len(s) : i # j /\ s[i] = s[j]

HasQuorum(k) == Len(proposals[k].approvals) >= wallet.threshold

\* C1: ExecuteProposal on a proposal that is not yet executed and has fewer
\* approvals than the wallet's threshold fails NotEnoughApprovals and leaves
\* executed false; every executed proposal has at least threshold approvals.
C1_ExecuteNeedsQuorum ==
    [][/\ \A k \in ProposalKeys, e \in Keys, ok \in BOOLEAN :
            (/\ ExecuteProposal(k, e, ok)
             /\ k \in Existing
             /\ ~proposals[k].executed
             /\ ~HasQuorum(k))
            => (result'.err = "NotEnoughApprovals" /\ ~proposals'[k].executed)
       /\ \A k \in ProposalKeys :
            proposals'[k].executed
            => Len(proposals'[k].approvals) >= wallet'.threshold]_vars

\* C3: every wallet that exists satisfies 1 <= threshold <= len(signers) and
\* has pairwise distinct signers.
C3_WalletWellFormed ==
    wallet.discriminator
    => /\ 1 <= wallet.threshold
       /\ wallet.threshold <= Len(wallet.signers)
       /\ ~HasDuplicates(wallet.signers)

\* C4: initialize_wallet with threshold > len(signers) fails with the
\* threshold error, also when the signers repeat; with an admissible
\* threshold and a repeated signer it fails DuplicateSigner; in both cases
\* no wallet exists afterwards.
C4_InitializeErrors ==
    (result.op = "initialize_wallet" /\ result.err # "AccountAlreadyInUse")
    => /\ result.threshold > Len(result.signers)
          => (result.err = "ThresholdTooHigh" /\ ~wallet.discriminator)
       /\ (result.threshold <= Len(result.signers) /\ HasDuplicates(result.signers))
          => (result.err = "DuplicateSigner" /\ ~wallet.discriminator)

\* C4 witness: a rejected initialize_wallet whose threshold exceeded the
\* signer count and whose signers repeated, reported as the threshold error
C4_Witness ==
    /\ result.op = "initialize_wallet"
    /\ result.err = "ThresholdTooHigh"
    /\ result.threshold > Len(result.signers)
    /\ HasDuplicates(result.signers)
    /\ ~wallet.discriminator

\* C5: a successful create_proposal by P from proposal_count = n creates
\* exactly one proposal, with index n + 1, proposer P, approvals <<P>>,
\* executed false and multi_sig the wallet, changes no other proposal, and
\* leaves proposal_count = n + 1 with the rest of the wallet as it was.
C5_CreateEffect ==
    [][(result'.op = "create_proposal" /\ result'.err = "Ok")
       => /\ contains(wallet.signers, result'.caller)
          /\ wallet' = [wallet EXCEPT !.proposal_count = wallet.proposal_count + 1]
          /\ \E k \in ProposalKeys :
               /\ ~proposals[k].discriminator
               /\ proposals'[k].discriminator
               /\ proposals'[k].index = wallet.proposal_count + 1
               /\ proposals'[k].proposer = result'.caller
               /\ proposals'[k].approvals = <<result'.caller>>
               /\ proposals'[k].executed = FALSE
               /\ proposals'[k].multi_sig = WalletKey
               /\ proposals'[k].instruction = result'.instruction
               /\ \A j \in ProposalKeys \ {k} : proposals'[j] = proposals[j]]_vars

\* C5 witness: the second proposal of a wallet has just been created, with
\* index 2, while the first carries index 1
C5_Witness ==
    /\ result.op = "create_proposal"
    /\ result.err = "Ok"
    /\ wallet.proposal_count = 2
    /\ \E k, j \in Existing :
         /\ proposals[k].index = 2
         /\ proposals[k].approvals = <<result.caller>>
         /\ proposals[j].index = 1

\* C6: every proposal account lives at the address derived from the wallet
\* key and the proposal's own index field, so the address re-derived by
\* ApproveProposal and ExecuteProposal is the one it was created at.
C6_AddressOfIndex ==
    \A k \in Existing :
        k = find_program_address(ProposalSeeds(WalletKey, proposals[k].index)).key

\* C7: ApproveProposal for an existing, not-executed proposal by a wallet
\* signer who has not approved yet succeeds and appends the signer at the
\* end of approvals.
C7_ApproveAppends ==
    [][\A k \in ProposalKeys, a \in Keys :
          (/\ ApproveProposal(k, a)
           /\ k \in Existing
           /\ ~proposals[k].executed
           /\ contains(wallet.signers, a)
           /\ ~contains(proposals[k].approvals, a))
          => /\ result'.err = "Ok"
             /\ proposals'[k].approvals = Append(proposals[k].approvals, a)]_vars

\* C8: ApproveProposal on an existing proposal reports the first failing
\* precondition in the order signer membership, not executed, not already
\* approved.
C8_ApproveErrorOrder ==
    [][\A k \in ProposalKeys, a \in Keys :
          (ApproveProposal(k, a) /\ k \in Existing)
          => result'.err =
                IF ~contains(wallet.signers, a) THEN "InvalidSigner"
                ELSE IF proposals[k].executed THEN "AlreadyExecuted"
                ELSE IF contains(proposals[k].approvals, a) THEN "AlreadyApproved"
                ELSE "Ok"]_vars

\* C9: approvals never holds a duplicate and holds only signers of the
\* wallet; ApproveProposal by a signer already in approvals of a
\* not-executed proposal fails AlreadyApproved and leaves approvals as long
\* as it was.
C9_ApprovalsDistinctSigners ==
    [][/\ \A k \in ProposalKeys :
            /\ ~HasDuplicates(proposals'[k].approvals)
            /\ Range(proposals'[k].approvals) \subseteq Range(wallet'.signers)
       /\ \A k \in ProposalKeys, a \in Keys :
            (/\ ApproveProposal(k, a)
             /\ k \in Existing
             /\ ~proposals[k].executed
             /\ contains(wallet.signers, a)
             /\ contains(proposals[k].approvals, a))
            => /\ result'.err = "AlreadyApproved"
               /\ Len(proposals'[k].approvals) = Len(proposals[k].approvals)]_vars

\* C10: ExecuteProposal on a not-executed proposal with quorum whose
\* delegate invocation fails changes no account and emits no
\* ProposalExecuted; one whose delegate invocation succeeds sets executed.
C10_DelegateFailureReverts ==
    [][\A k \in ProposalKeys, e \in Keys, ok \in BOOLEAN :
          (/\ ExecuteProposal(k, e, ok)
           /\ k \in Existing
           /\ ~proposals[k].executed
           /\ HasQuorum(k))
          => IF ok
             THEN proposals'[k].executed
             ELSE /\ proposals' = proposals
                  /\ wallet' = wallet
                  /\ result'.err # "Ok"
                  /\ result'.event # "ProposalExecuted"]_vars

\* C11: ExecuteProposal on a not-executed proposal with quorum and a
\* succeeding delegate succeeds whoever the caller is, signer or not; it
\* never fails InvalidSigner.
C11_AnyCallerExecutes ==
    [][\A k \in ProposalKeys, e \in Keys, ok \in BOOLEAN :
          ExecuteProposal(k, e, ok)
          => /\ result'.err # "InvalidSigner"
             /\ (k \in Existing /\ ~proposals[k].executed /\ HasQuorum(k) /\ ok)
                => result'.err = "Ok"]_vars

\* C12: proposal_count is the number of proposal accounts, their indices
\* are exactly 1..proposal_count, each carried by one proposal only; the
\* counter changes only by +1 and only together with the creation of one
\* proposal account, and no account appears without the counter advancing.
CountMatchesProposals ==
    /\ wallet.proposal_count = Cardinality(Existing)
    /\ {proposals[k].index : k \in Existing} = 1..wallet.proposal_count

C12_CounterAndRecords ==
    [][/\ CountMatchesProposals'
       /\ wallet'.proposal_count >= wallet.proposal_count
       /\ wallet'.proposal_count # wallet.proposal_count
          => /\ wallet'.proposal_count = wallet.proposal_count + 1
             /\ \E k \in ProposalKeys \ Existing :
                   {j \in ProposalKeys : proposals'[j].discriminator}
                      = Existing \cup {k}
       /\ (\E k \in ProposalKeys :
              proposals'[k].discriminator /\ ~proposals[k].discriminator)
          => wallet'.proposal_count = wallet.proposal_count + 1]_vars

\* C12 witness: two proposals exist, with indices 1 and 2, and the counter
\* reads 2
C12_Witness ==
    /\ wallet.proposal_count = 2
    /\ Cardinality(Existing) = 2
    /\ {proposals[k].index : k \in Existing} = {1, 2}

\* C14: a transaction that fails leaves the wallet and every proposal as
\* they were; in particular create_proposal by a non-signer fails
\* InvalidSigner, creates no proposal and leaves proposal_count alone, and
\* a rejected ApproveProposal or ExecuteProposal changes neither approvals
\* nor executed.
IsPrefix(s, t) == Len(s) <= Len(t) /\ \A i \in 1..Len(s) : s[i] = t[i]

C14_FailureChangesNothing ==
    [][/\ result'.err # "Ok" => (wallet' = wallet /\ proposals' = proposals)
       /\ \A k \in ProposalKeys, c \in Keys, ix \in Instructions :
            (/\ CreateProposal(k, c, ix)
             /\ wallet.discriminator
             /\ ~contains(wallet.signers, c))
            => /\ result'.err # "Ok"
               /\ wallet'.proposal_count = wallet.proposal_count
               /\ proposals' = proposals]_vars

\* C14 witness: a non-signer's create_proposal has just failed
\* InvalidSigner in a wallet that already holds a proposal, which is intact
C14_Witness ==
    /\ result.op = "create_proposal"
    /\ result.err = "InvalidSigner"
    /\ ~contains(wallet.signers, result.caller)
    /\ wallet.proposal_count = 1
    /\ Cardinality(Existing) = 1

\* C15: once the wallet exists its signers and threshold never change, and
\* a further InitializeWallet fails and leaves the wallet, proposal_count
\* included, as it was.
C15_WalletNeverReconfigured ==
    [][wallet.discriminator
       => /\ wallet'.discriminator
          /\ wallet'.signers = wallet.signers
          /\ wallet'.threshold = wallet.threshold
          /\ wallet'.bump = wallet.bump
          /\ result'.op = "initialize_wallet"
             => (result'.err # "Ok" /\ wallet' = wallet)]_vars

\* C15 witness: InitializeWallet has just been rejected on a wallet that
\* already counts a proposal
C15_Witness ==
    /\ result.op = "initialize_wallet"
    /\ result.err = "AccountAlreadyInUse"
    /\ wallet.discriminator
    /\ wallet.proposal_count >= 1

\* C16: an existing proposal never changes its multi_sig, proposer, index
\* or instruction, and stays in existence; its approvals in any state is a
\* prefix of its approvals in every later state; a step changes at most
\* one proposal.
C16_ProposalFieldsFrozen ==
    [][/\ \A k \in Existing :
            /\ proposals'[k].discriminator
            /\ proposals'[k].multi_sig = proposals[k].multi_sig
            /\ proposals'[k].proposer = proposals[k].proposer
            /\ proposals'[k].index = proposals[k].index
            /\ proposals'[k].instruction = proposals[k].instruction
            /\ IsPrefix(proposals[k].approvals, proposals'[k].approvals)
       /\ Cardinality({k \in ProposalKeys : proposals'[k] # proposals[k]}) <= 1]_vars

\* C16 witness: a second proposal has just been created beside the first,
\* whose proposer differs
C16_Witness ==
    /\ result.op = "create_proposal"
    /\ result.err = "Ok"
    /\ \E k, j \in Existing :
         /\ proposals[k].index = 1
         /\ proposals[j].index = 2
         /\ proposals[k].proposer # proposals[j].proposer

\* C19: every proposal has a non-empty approvals whose first element is
\* its proposer, a signer of the wallet; and in a wallet with threshold
\* <= 1 a proposal is executable right after its creation, with no
\* ApproveProposal.
ProposerApprovesFirst ==
    \A k \in Existing :
        /\ Len(proposals[k].approvals) >= 1
        /\ proposals[k].approvals[1] = proposals[k].proposer
        /\ contains(wallet.signers, proposals[k].proposer)

C19_ProposerCountsAsApproval ==
    [][/\ ProposerApprovesFirst'
       /\ \A k \in ProposalKeys, e \in Keys :
            (/\ ExecuteProposal(k, e, TRUE)
             /\ k \in Existing
             /\ ~proposals[k].executed
             /\ wallet.threshold <= 1)
            => (result'.err = "Ok" /\ proposals'[k].executed)]_vars

\* the program under callers that keep submitting: every ApproveProposal
\* and every ExecuteProposal with a succeeding delegate that stays possible
\* is eventually submitted
SpecLive ==
    /\ Init
    /\ [][Next]_vars
    /\ \A k \in ProposalKeys :
         /\ \A a \in Keys : WF_vars(ApproveProposal(k, a) /\ UNCHANGED pending)
         /\ WF_vars(\E e \in Keys : ExecuteProposal(k, e, TRUE) /\ UNCHANGED pending)

\* C20: every proposal that is created is eventually executed, given that
\* the signers keep approving and ExecuteProposal keeps being submitted
\* with a delegate that succeeds.
C20_EventuallyExecuted ==
    \A k \in ProposalKeys : proposals[k].discriminator ~> proposals[k].executed

\* C13: with CreateProposal and ApproveProposal transactions in flight
\* together, each committed atomically or rejected, under every order of
\* processing: no two proposals share an index, no proposal account is
\* written over by another creation, no approval once committed is lost,
\* no signer is twice in approvals, and a rejected transaction changes no
\* account.
C13_ConcurrentSubmission ==
    [][/\ \A k, j \in ProposalKeys :
            (proposals'[k].discriminator /\ proposals'[j].discriminator /\ k # j)
            => proposals'[k].index # proposals'[j].index
       /\ \A k \in Existing :
            /\ proposals'[k].discriminator
            /\ proposals'[k].index = proposals[k].index
            /\ proposals'[k].proposer = proposals[k].proposer
            /\ IsPrefix(proposals[k].approvals, proposals'[k].approvals)
       /\ \A k \in ProposalKeys : ~HasDuplicates(proposals'[k].approvals)
       /\ \A c \in Clients :
            (pending[c] # NoTx /\ pending'[c] = NoTx)
            => IF result'.err = "Ok"
               THEN contains(proposals'[pending[c].key].approvals, pending[c].caller)
               ELSE wallet' = wallet /\ proposals' = proposals]_vars

\* C13 witness: two creations were in flight for the same address; one has
\* committed and the other has just been rejected, leaving one proposal
C13_Witness ==
    /\ \A c \in Clients : pending[c] = NoTx
    /\ result.op = "create_proposal"
    /\ result.err = "ConstraintSeeds"
    /\ wallet.proposal_count = 1
    /\ Cardinality(Existing) = 1

====
